---- MODULE Spec2Model ----
(***************************************************************************)
(* The repair dispatch service of satellite/repair/repairer/repairer.go:   *)
(* Service.Run drives Loop.Run(processWhileQueueHasItems); each process    *)
(* call acquires one unit of JobLimiter, selects a segment from the repair *)
(* queue and hands it to a goroutine that runs worker and then releases    *)
(* the unit.  The goroutines of the program are the processes of the       *)
(* model: the one running Service.Run (loopPC) and one per spawned job     *)
(* (job[s].pc, a job being named by the segment Select gave it).           *)
(***************************************************************************)
EXTENDS Integers, Sequences, FiniteSets

\* ------------------------------------------------------------------ bounds

\* The largest config.MaxRepair the model configures (Init draws 1..MaxMaxRepair).
MaxMaxRepair == 2

\* The number of injured segments the checker may insert into the repair queue.
NumSegs == 2

Segments == 1 .. NumSegs

\* seg.GetInsertedTime(): segment 1 is a legacy entry whose insertion timestamp
\* is the zero time, every other segment carries a non-zero timestamp.
InsertedTime(s) == s - 1

\* The (piecesRequired, piecesAvailable) pairs an irreparableError may carry.
PieceCounts == { <<10, 3>>, <<2, 0>> }

\* ------------------------------------------------------------------ errors

\* An error value is the sequence of the failures it holds; nil is the empty one.
Nil == << >>

ErrEmptyQueue == << "empty queue" >>
ErrQueue == << "queue error" >>
ErrCanceled == << "context canceled" >>
ErrRepair == << "repair error" >>
ErrIrreparable == << "irreparable" >>
ErrDelete == << "failed to remove segment from queue" >>
ErrStore == << "irreparableDB error" >>

\* Faulty variant of Combine: the new error replaces the one already there.
CombineReplace(err, other) == other

\* errs.Combine(err, delErr): the non-nil errors, in order, as one error.
Combine(err, other) == err \o other

\* Error.Wrap(err): nil stays nil, anything else gets the class of the package.
Wrap(err) == IF err = Nil THEN Nil ELSE << "repairer error" >> \o err

\* Faulty variant of IsEmptyQueue: the empty-queue signal is not recognised.
IsEmptyQueueNever(err) == FALSE

\* storage.ErrEmptyQueue.Has(err)
IsEmptyQueue(err) == err = ErrEmptyQueue

\* err.(*irreparableError)
IsIrreparable(err) == err # Nil /\ Head(err) = "irreparable"

\* The errors Repair may return: nil, a generic failure (a deadline that ran out
\* included), or an irreparableError.
RepairErrors == { Nil, ErrRepair, ErrIrreparable }

\* ------------------------------------------------------------------- state

VARIABLES
    maxRepair,    \* config.MaxRepair, also the size of JobLimiter
    limiterCur,   \* JobLimiter: the units acquired and not yet released
    ctxDone,      \* the context given to Run has been cancelled
    loopPC,       \* where the goroutine running Service.Run stands
    selected,     \* what the Select of the current dispatch step returned
    stepCtx,      \* the deadline context of the current dispatch step
    runErr,       \* what Loop.Run returned
    processLog,   \* the number of log.Error("process") records written
    stoppedWith,  \* the jobs in flight when the poll loop stopped; -1 before
    queue,        \* the repair queue: the state of each segment's row
    irrDB,        \* the irreparable store: the record of each segment
    job           \* the spawned job goroutines, by segment

vars == << maxRepair, limiterCur, ctxDone, loopPC, selected, stepCtx, runErr,
           processLog, stoppedWith, queue, irrDB, job >>

\* Loop.Run has not returned yet.
NotReturned == << "not returned" >>

NoSelect == [ err |-> Nil, seg |-> 0 ]

NoRecord == [ LostPieces |-> 0, RepairAttemptCount |-> 0 ]

NoPieces == << 0, 0 >>

\* A deadline context: its state, the context it was derived from, and the
\* calls whose duration has run on its deadline clock (the calls made between
\* its creation and its cancellation).
NoCtx == [ state |-> "none", parent |-> "none", charged |-> {} ]

\* cancel(): the context is done and its clock is of no further interest.
Cancelled == [ state |-> "cancelled", parent |-> "none", charged |-> {} ]

\* Faulty variant of WithTimeout: the context is derived before the admission
\* Acquire, so the wait for a unit runs on its clock.
WithTimeoutEarly == [ state |-> "live", parent |-> "Run", charged |-> { "Acquire" } ]

\* Faulty variant of WithTimeout: the context is derived from a background
\* context instead of the context process was called with.
WithTimeoutDetached == [ state |-> "live", parent |-> "Background", charged |-> {} ]

\* context.WithTimeout(ctx, config.TotalTimeout), called once Acquire returned
\* nil: a child of the context process was called with, which is the one given
\* to Run; the clock starts with nothing counted against it.
WithTimeout == [ state |-> "live", parent |-> "Run", charged |-> {} ]

\* A call made with context c: its duration counts against c's deadline.
Charge(c, call) == [ c EXCEPT !.charged = @ \cup { call } ]

NoJob == [ pc |-> "none", ctx |-> NoCtx, retDelete |-> FALSE, retErr |-> Nil,
           shouldDelete |-> FALSE, err |-> Nil, irrErr |-> Nil, delErr |-> Nil, pieces |-> NoPieces, calls |-> << >>, log |-> {},
           metrics |-> {}, returned |-> Nil ]

\* The jobs spawned and not yet finished: each holds one unit of JobLimiter.
InFlight == { s \in Segments : job[s].pc # "none" }

\* The jobs inside a Repair invocation.
InRepair == { s \in Segments : job[s].pc = "Repair" }

\* NewService: JobLimiter = semaphore.NewWeighted(config.MaxRepair), nothing acquired.
Init ==
    /\ maxRepair \in 1 .. MaxMaxRepair
    /\ limiterCur = 0
    /\ ctxDone = FALSE
    /\ loopPC = "new"
    /\ selected = NoSelect
    /\ stepCtx = NoCtx
    /\ runErr = NotReturned
    /\ processLog = 0
    /\ stoppedWith = -1
    /\ queue = [ s \in Segments |-> "absent" ]
    /\ irrDB = [ s \in Segments |-> NoRecord ]
    /\ job = [ s \in Segments |-> NoJob ]

\* -------------------------------------------------------------- JobLimiter

\* Faulty variant of CanAcquire: the limiter admits one unit more than its size.
CanAcquireOffByOne(n) == maxRepair - limiterCur >= n - 1

\* semaphore.Weighted.Acquire(n) is granted when size - cur >= n.
CanAcquire(n) == maxRepair - limiterCur >= n

\* semaphore.Weighted.Release(n)
Released(n) == limiterCur - n

\* ------------------------------------------------------------- environment

\* The checker inserts an injured segment into the repair queue.
Insert(s) ==
    /\ queue[s] = "absent"
    /\ queue' = [ queue EXCEPT ![s] = "pending" ]
    /\ UNCHANGED << maxRepair, limiterCur, ctxDone, loopPC, selected, stepCtx, runErr,
                    processLog, stoppedWith, irrDB, job >>

\* The context given to Run is cancelled (service shutdown).
CancelRun ==
    /\ ~ ctxDone
    /\ ctxDone' = TRUE
    /\ UNCHANGED << maxRepair, limiterCur, loopPC, selected, stepCtx, runErr,
                    processLog, stoppedWith, queue, irrDB, job >>

\* ctx.Done() of a deadline context is closed: by its cancel(), or by the
\* cancellation of the context it was derived from. (The deadline itself is not
\* a state of the model: what it does is make the calls under the context
\* fail, which Select, Repair, Delete and IncrementRepairAttempts may do at
\* any time; a context in state "live" is one whose deadline has not elapsed.)
Done(c) ==
    \/ c.state = "cancelled"
    \/ c.state = "live" /\ c.parent = "Run" /\ ctxDone

\* -------------------------------------------------- Run and the poll loop

\* Loop.Run returned err: Run's deferred WaitForPendingRepairs is next.
LoopReturns(err) ==
    /\ runErr' = err
    /\ stoppedWith' = Cardinality(InFlight)
    /\ loopPC' = "WaitForPendingRepairs"

\* Service.Run is called: Loop.Run invokes processWhileQueueHasItems at once.
Run ==
    /\ loopPC = "new"
    /\ loopPC' = "Acquire"
    /\ UNCHANGED << maxRepair, limiterCur, ctxDone, selected, stepCtx, runErr,
                    processLog, stoppedWith, queue, irrDB, job >>

\* Loop.Run: the interval has elapsed, processWhileQueueHasItems is invoked again.
CycleTick ==
    /\ loopPC = "idle"
    /\ loopPC' = "Acquire"
    /\ UNCHANGED << maxRepair, limiterCur, ctxDone, selected, stepCtx, runErr,
                    processLog, stoppedWith, queue, irrDB, job >>

\* Loop.Run: the context is done while the cycle waits; Loop.Run returns ctx.Err().
CycleCtxDone ==
    /\ loopPC = "idle"
    /\ ctxDone
    /\ LoopReturns(ErrCanceled)
    /\ UNCHANGED << maxRepair, limiterCur, ctxDone, selected, stepCtx,
                    processLog, queue, irrDB, job >>

\* Faulty variant of AcquireGranted: the step goes on to Select without waiting
\* for a free unit.
AcquireGrantedUnguarded ==
    /\ loopPC = "Acquire"
    /\ limiterCur' = limiterCur + 1
    /\ stepCtx' = WithTimeout
    /\ loopPC' = "Select"
    /\ UNCHANGED << maxRepair, ctxDone, selected, runErr, processLog, stoppedWith,
                    queue, irrDB, job >>

\* process: JobLimiter.Acquire(ctx, 1) is granted, and the deadline context of
\* the step is created (context.WithTimeout) before Select is called.
AcquireGranted ==
    /\ loopPC = "Acquire"
    /\ CanAcquire(1)
    /\ limiterCur' = limiterCur + 1
    /\ stepCtx' = WithTimeout
    /\ loopPC' = "Select"
    /\ UNCHANGED << maxRepair, ctxDone, selected, runErr, processLog, stoppedWith,
                    queue, irrDB, job >>

\* Faulty variant of AcquireFailed: the failed Acquire keeps a unit.
AcquireFailedLeak ==
    /\ loopPC = "Acquire"
    /\ ctxDone
    /\ processLog' = processLog + 1
    /\ LoopReturns(ErrCanceled)
    /\ limiterCur' = limiterCur + 1
    /\ UNCHANGED << maxRepair, ctxDone, selected, stepCtx, queue, irrDB, job >>

\* process: JobLimiter.Acquire(ctx, 1) fails because ctx is done; process returns
\* the error, processWhileQueueHasItems logs and returns it, Loop.Run returns it.
AcquireFailed ==
    /\ loopPC = "Acquire"
    /\ ctxDone
    /\ processLog' = processLog + 1
    /\ LoopReturns(ErrCanceled)
    /\ UNCHANGED << maxRepair, limiterCur, ctxDone, selected, stepCtx, queue, irrDB, job >>

\* The errors queue.Select may fail with, besides the empty-queue signal.
SelectErrors == { ErrQueue } \cup (IF ctxDone THEN { ErrCanceled } ELSE {})

\* queue.Select(ctx) with the deadline context of the step: claims one pending
\* segment and marks it attempted, or signals the empty queue when none is
\* pending, or fails.
Select ==
    /\ loopPC = "Select"
    /\ \/ \E s \in Segments :
            /\ queue[s] = "pending"
            /\ queue' = [ queue EXCEPT ![s] = "attempted" ]
            /\ selected' = [ err |-> Nil, seg |-> s ]
       \/ /\ \A s \in Segments : queue[s] # "pending"
          /\ selected' = [ err |-> ErrEmptyQueue, seg |-> 0 ]
          /\ UNCHANGED queue
       \/ \E e \in SelectErrors :
            /\ selected' = [ err |-> e, seg |-> 0 ]
            /\ UNCHANGED queue
    /\ stepCtx' = Charge(stepCtx, "Select")
    /\ loopPC' = "selected"
    /\ UNCHANGED << maxRepair, limiterCur, ctxDone, runErr, processLog,
                    stoppedWith, irrDB, job >>

\* Faulty variant of SelectErrorReturn: the unit of the step is not released.
SelectErrorReturnLeak ==
    /\ limiterCur' = limiterCur
    /\ stepCtx' = NoCtx
    /\ selected' = NoSelect
    /\ UNCHANGED job

\* process, Select failed: JobLimiter.Release(1); cancel(); return err.
SelectErrorReturn ==
    /\ limiterCur' = Released(1)
    /\ stepCtx' = NoCtx
    /\ selected' = NoSelect
    /\ UNCHANGED job

\* process returned the empty-queue signal: processWhileQueueHasItems returns
\* nil and the cycle waits for its next interval.
SelectEmpty ==
    /\ loopPC = "selected"
    /\ IsEmptyQueue(selected.err)
    /\ SelectErrorReturn
    /\ loopPC' = "idle"
    /\ UNCHANGED << maxRepair, ctxDone, runErr, processLog, stoppedWith, queue, irrDB >>

\* process returned another Select error: processWhileQueueHasItems logs it and
\* returns it, and Loop.Run returns it.
SelectFailed ==
    /\ loopPC = "selected"
    /\ selected.err # Nil
    /\ ~ IsEmptyQueue(selected.err)
    /\ SelectErrorReturn
    /\ processLog' = processLog + 1
    /\ LoopReturns(selected.err)
    /\ UNCHANGED << maxRepair, ctxDone, queue, irrDB >>

\* Faulty variant of Spawn: process releases the unit it has handed to the job.
SpawnReleasing ==
    /\ loopPC = "selected"
    /\ selected.err = Nil
    /\ job' = [ job EXCEPT ![selected.seg] = [ NoJob EXCEPT !.pc = "spawned", !.ctx = stepCtx ] ]
    /\ limiterCur' = Released(1)
    /\ stepCtx' = NoCtx
    /\ selected' = NoSelect
    /\ loopPC' = "Acquire"
    /\ UNCHANGED << maxRepair, ctxDone, runErr, processLog, stoppedWith, queue, irrDB >>

\* Faulty variant of Spawn: process runs the job itself and returns when it is over.
SpawnInline ==
    /\ loopPC = "selected"
    /\ selected.err = Nil
    /\ InFlight = {}
    /\ job' = job
    /\ limiterCur' = Released(1)
    /\ stepCtx' = NoCtx
    /\ selected' = NoSelect
    /\ loopPC' = "Acquire"
    /\ UNCHANGED << maxRepair, ctxDone, runErr, processLog, stoppedWith, queue, irrDB >>

\* process, Select succeeded: the goroutine of the job is started with the unit
\* and the deadline context of the step; process returns nil and
\* processWhileQueueHasItems calls process again.
Spawn ==
    /\ loopPC = "selected"
    /\ selected.err = Nil
    /\ job' = [ job EXCEPT ![selected.seg] = [ NoJob EXCEPT !.pc = "spawned", !.ctx = stepCtx ] ]
    /\ stepCtx' = NoCtx
    /\ selected' = NoSelect
    /\ loopPC' = "Acquire"
    /\ UNCHANGED << maxRepair, limiterCur, ctxDone, runErr, processLog, stoppedWith,
                    queue, irrDB >>

\* Faulty variant of DrainWeight: the barrier acquires one unit less than the capacity.
DrainWeightShort == maxRepair - 1

\* WaitForPendingRepairs acquires the entire capacity of JobLimiter.
DrainWeight == maxRepair

\* WaitForPendingRepairs: JobLimiter.Acquire(context.Background(), MaxRepair).
WaitAcquire ==
    /\ loopPC = "WaitForPendingRepairs"
    /\ CanAcquire(DrainWeight)
    /\ limiterCur' = limiterCur + DrainWeight
    /\ loopPC' = "drained"
    /\ UNCHANGED << maxRepair, ctxDone, selected, stepCtx, runErr, processLog,
                    stoppedWith, queue, irrDB, job >>

\* WaitForPendingRepairs: JobLimiter.Release(MaxRepair); Run returns.
WaitRelease ==
    /\ loopPC = "drained"
    /\ limiterCur' = Released(DrainWeight)
    /\ loopPC' = "returned"
    /\ UNCHANGED << maxRepair, ctxDone, selected, stepCtx, runErr, processLog,
                    stoppedWith, queue, irrDB, job >>

\* ------------------------------------------------------------ the job: worker

\* The steps of job s change nothing but the job itself and what is named.
JobFrame == UNCHANGED << maxRepair, ctxDone, loopPC, selected, stepCtx, runErr,
                         processLog, stoppedWith >>

\* worker: the goroutine runs and calls repairer.Repair(ctx, path).
WorkerStart(s) ==
    /\ job[s].pc = "spawned"
    /\ job' = [ job EXCEPT ![s].pc = "Repair", ![s].calls = Append(@, "Repair"),
                            ![s].ctx = Charge(@, "Repair") ]
    /\ JobFrame
    /\ UNCHANGED << limiterCur, queue, irrDB >>

\* Faulty variant of AfterRepair: an error that is not irreparable keeps the
\* segment in the queue whatever Repair signalled.
AfterRepairKeepOnError(shouldDelete, err) ==
    IF shouldDelete
    THEN IF IsIrreparable(err) THEN "IncrementRepairAttempts"
         ELSE IF err # Nil THEN "return" ELSE "Delete"
    ELSE "return"

\* Faulty variant of AfterRepair: every error is treated as an irreparableError.
AfterRepairGenericRecords(shouldDelete, err) ==
    IF shouldDelete
    THEN IF err # Nil THEN "IncrementRepairAttempts" ELSE "Delete"
    ELSE "return"

\* Faulty variant of AfterRepair: an irreparableError is recorded whatever
\* Repair signalled.
AfterRepairIrreparableAlways(shouldDelete, err) ==
    IF IsIrreparable(err) THEN "IncrementRepairAttempts"
    ELSE IF shouldDelete THEN "Delete" ELSE "return"

\* Faulty variant of AfterRepair: a repaired segment (err = nil) is not deleted.
AfterRepairSkipDelete(shouldDelete, err) ==
    IF shouldDelete /\ err # Nil
    THEN IF IsIrreparable(err) THEN "IncrementRepairAttempts" ELSE "Delete"
    ELSE "return"

\* worker, the classification of what Repair returned: the call that comes next.
AfterRepair(shouldDelete, err) ==
    IF shouldDelete
    THEN IF IsIrreparable(err) THEN "IncrementRepairAttempts" ELSE "Delete"
    ELSE "return"

\* worker, the records it logs while classifying what Repair returned.
ClassifyLog(shouldDelete, err) ==
    IF ~ shouldDelete THEN {}
    ELSE IF IsIrreparable(err) THEN { "segment could not be repaired" }
    ELSE IF err # Nil THEN { "unexpected error repairing segment" }
    ELSE { "removing repaired segment from repair queue" }

\* Repair returns (shouldDelete, err); p is what an irreparableError carries.
RepairReturns(s, shouldDelete, err, p) ==
    /\ job[s].pc = "Repair"
    /\ job' = [ job EXCEPT ![s].pc = AfterRepair(shouldDelete, err),
                           ![s].retDelete = shouldDelete,
                           ![s].retErr = err,
                           ![s].shouldDelete = shouldDelete,
                           ![s].err = err,
                           ![s].pieces = p,
                           ![s].log = ClassifyLog(shouldDelete, err) ]
    /\ JobFrame
    /\ UNCHANGED << limiterCur, queue, irrDB >>

\* Faulty variant of LostPieces: the operands of the difference are exchanged.
LostPiecesSwapped(p) == p[2] - p[1]

\* worker: LostPieces of the record is piecesRequired - piecesAvailable.
LostPieces(p) == p[1] - p[2]

\* worker: the IrreparableSegment handed to IncrementRepairAttempts.
SegmentInfo(p) == [ LostPieces |-> LostPieces(p), RepairAttemptCount |-> 1 ]

\* irrDB.IncrementRepairAttempts: the record is merged into the one stored.
Merged(old, info) ==
    [ LostPieces |-> info.LostPieces,
      RepairAttemptCount |-> old.RepairAttemptCount + info.RepairAttemptCount ]

\* Faulty variant of IncrementRepairAttempts: a failed write leaves shouldDelete as it was.
IncrementRepairAttemptsStillDelete(s, ok) ==
    /\ job[s].pc = "IncrementRepairAttempts"
    /\ IF ok
       THEN /\ irrDB' = [ irrDB EXCEPT ![s] = Merged(@, SegmentInfo(job[s].pieces)) ]
            /\ job' = [ job EXCEPT ![s].pc = "Delete",
                                   ![s].calls = Append(@, "IncrementRepairAttempts") ]
       ELSE /\ irrDB' = irrDB
            /\ job' = [ job EXCEPT ![s].pc = "Delete",
                                   ![s].irrErr = ErrStore,
                                   ![s].calls = Append(@, "IncrementRepairAttempts"),
                                   ![s].log = @ \cup { "failed to add segment to irreparableDB" } ]
    /\ JobFrame
    /\ UNCHANGED << limiterCur, queue >>

\* worker: irrDB.IncrementRepairAttempts(ctx, segmentInfo) succeeds or fails; on
\* failure the segment is left in the repair queue (shouldDelete = false) and
\* the failure is logged; err stays the error Repair returned.
IncrementRepairAttempts(s, ok) ==
    /\ job[s].pc = "IncrementRepairAttempts"
    /\ IF ok
       THEN /\ irrDB' = [ irrDB EXCEPT ![s] = Merged(@, SegmentInfo(job[s].pieces)) ]
            /\ job' = [ job EXCEPT ![s].pc = "Delete",
                                   ![s].calls = Append(@, "IncrementRepairAttempts") ]
       ELSE /\ irrDB' = irrDB
            /\ job' = [ job EXCEPT ![s].pc = "return",
                                   ![s].shouldDelete = FALSE,
                                   ![s].irrErr = ErrStore,
                                   ![s].calls = Append(@, "IncrementRepairAttempts"),
                                   ![s].log = @ \cup { "failed to add segment to irreparableDB" } ]
    /\ JobFrame
    /\ UNCHANGED << limiterCur, queue >>

\* worker: queue.Delete(ctx, seg) succeeds or fails; a failure is combined with
\* the error Repair returned.
Delete(s, ok) ==
    /\ job[s].pc = "Delete"
    /\ IF ok
       THEN /\ queue' = [ queue EXCEPT ![s] = "deleted" ]
            /\ job' = [ job EXCEPT ![s].pc = "return", ![s].calls = Append(@, "Delete") ]
       ELSE /\ queue' = queue
            /\ job' = [ job EXCEPT ![s].pc = "return", ![s].calls = Append(@, "Delete"),
                                   ![s].delErr = ErrDelete,
                                   ![s].err = Combine(@, ErrDelete) ]
    /\ JobFrame
    /\ UNCHANGED << limiterCur, irrDB >>

\* Faulty variant of Observed: the time since queueing is observed whatever InsertedTime is.
ObservedBoth(s) == { "time_for_repair", "time_since_checker_queue" }

\* worker: the timing metrics observed for a run that ends without an error.
Observed(s) ==
    { "time_for_repair" } \cup
    (IF InsertedTime(s) # 0 THEN { "time_since_checker_queue" } ELSE {})

\* Faulty variant of WorkerReturn: the timing metrics are observed before the
\* error check, for failed runs as well.
WorkerReturnAlwaysObserves(s) ==
    /\ job[s].pc = "return"
    /\ job' = [ job EXCEPT ![s].pc = "cancel",
                           ![s].returned = Wrap(job[s].err),
                           ![s].metrics = Observed(s),
                           ![s].log = IF job[s].err # Nil
                                      THEN @ \cup { "repair worker failed" } ELSE @ ]
    /\ JobFrame
    /\ UNCHANGED << limiterCur, queue, irrDB >>

\* Faulty variant of WorkerReturn: the error of a job is returned up to Loop.Run.
WorkerReturnFatal(s) ==
    /\ job[s].pc = "return"
    /\ job' = [ job EXCEPT ![s].pc = "cancel",
                           ![s].returned = Wrap(job[s].err),
                           ![s].metrics = IF job[s].err # Nil THEN {} ELSE Observed(s),
                           ![s].log = IF job[s].err # Nil
                                      THEN @ \cup { "repair worker failed" } ELSE @ ]
    /\ IF job[s].err # Nil /\ loopPC \in { "idle", "Acquire" }
       THEN LoopReturns(Wrap(job[s].err))
       ELSE UNCHANGED << loopPC, runErr, stoppedWith >>
    /\ UNCHANGED << maxRepair, ctxDone, selected, stepCtx, processLog, limiterCur, queue, irrDB >>

\* Faulty variant of WorkerReturn: a job that failed ends without its deferred calls.
WorkerReturnLeak(s) ==
    /\ job[s].pc = "return"
    /\ job' = IF job[s].err # Nil
              THEN [ job EXCEPT ![s] = NoJob ]
              ELSE [ job EXCEPT ![s].pc = "cancel",
                                ![s].returned = Nil,
                                ![s].metrics = Observed(s) ]
    /\ JobFrame
    /\ UNCHANGED << limiterCur, queue, irrDB >>

\* worker returns Error.Wrap(err), or records its metrics and returns nil; the
\* goroutine logs the error worker returned.
WorkerReturn(s) ==
    /\ job[s].pc = "return"
    /\ job' = [ job EXCEPT ![s].pc = "cancel",
                           ![s].returned = Wrap(job[s].err),
                           ![s].metrics = IF job[s].err # Nil THEN {} ELSE Observed(s),
                           ![s].log = IF job[s].err # Nil
                                      THEN @ \cup { "repair worker failed" } ELSE @ ]
    /\ JobFrame
    /\ UNCHANGED << limiterCur, queue, irrDB >>

\* The goroutine's deferred cancel() of the deadline context; worker's locals
\* and the error it returned are out of scope from here on.
JobCancel(s) ==
    /\ job[s].pc = "cancel"
    /\ job' = [ job EXCEPT ![s] = [ NoJob EXCEPT !.pc = "Release", !.ctx = Cancelled ] ]
    /\ JobFrame
    /\ UNCHANGED << limiterCur, queue, irrDB >>

\* Faulty variant of JobRelease: the job ends and keeps its unit.
JobReleaseKeepsUnit(s) ==
    /\ job[s].pc = "Release"
    /\ limiterCur' = limiterCur
    /\ job' = [ job EXCEPT ![s] = NoJob ]
    /\ JobFrame
    /\ UNCHANGED << queue, irrDB >>

\* The goroutine's deferred JobLimiter.Release(1): the job is over.
JobRelease(s) ==
    /\ job[s].pc = "Release"
    /\ limiterCur' = Released(1)
    /\ job' = [ job EXCEPT ![s] = NoJob ]
    /\ JobFrame
    /\ UNCHANGED << queue, irrDB >>

\* A step of the goroutine of job s.
JobNext(s) ==
    \/ WorkerStart(s)
    \/ \E d \in BOOLEAN, e \in RepairErrors :
          \E p \in (IF IsIrreparable(e) THEN PieceCounts ELSE { NoPieces }) :
             RepairReturns(s, d, e, p)
    \/ \E ok \in BOOLEAN : IncrementRepairAttempts(s, ok)
    \/ \E ok \in BOOLEAN : Delete(s, ok)
    \/ WorkerReturn(s)
    \/ JobCancel(s)
    \/ JobRelease(s)

\* -------------------------------------------------------- the specification

Next ==
    \/ \E s \in Segments : Insert(s)
    \/ CancelRun
    \/ Run
    \/ CycleTick
    \/ CycleCtxDone
    \/ AcquireGranted
    \/ AcquireFailed
    \/ Select
    \/ SelectEmpty
    \/ SelectFailed
    \/ Spawn
    \/ WaitAcquire
    \/ WaitRelease
    \/ \E s \in Segments : WorkerStart(s)
    \/ \E s \in Segments, d \in BOOLEAN, e \in RepairErrors :
          \E p \in (IF IsIrreparable(e) THEN PieceCounts ELSE { NoPieces }) :
             RepairReturns(s, d, e, p)
    \/ \E s \in Segments, ok \in BOOLEAN : IncrementRepairAttempts(s, ok)
    \/ \E s \in Segments, ok \in BOOLEAN : Delete(s, ok)
    \/ \E s \in Segments : WorkerReturn(s)
    \/ \E s \in Segments : JobCancel(s)
    \/ \E s \in Segments : JobRelease(s)

Spec == Init /\ [][Next]_vars

\* What goes on after the poll loop stopped: the steps of the jobs in flight
\* (every Repair, Delete and IncrementRepairAttempts call returns, and the
\* goroutine runs on to its deferred calls) and of WaitForPendingRepairs.
ShutdownNext ==
    \/ \E s \in Segments : JobNext(s)
    \/ WaitAcquire
    \/ WaitRelease

\* Fair scheduling: a goroutine that can take a step is not held back for ever.
FairSpec == Spec /\ WF_vars(ShutdownNext)

\* ------------------------------------------------------------------ claims

\* The poll loop has stopped: Loop.Run has returned.
Stopped == loopPC \in { "WaitForPendingRepairs", "drained", "returned" }

\* The units the goroutine of Run holds itself: the one of a dispatch step between
\* Acquire and the hand-off, or the whole capacity inside WaitForPendingRepairs.
HeldByRun ==
    IF loopPC \in { "Select", "selected" } THEN 1
    ELSE IF loopPC = "drained" THEN maxRepair
    ELSE 0

\* C1: in every reachable state, whatever MaxRepair is configured and however the
\* dispatch loop and the jobs interleave, at most MaxRepair jobs are inside a
\* Repair invocation.
C1_AtMostMaxRepairInRepair == Cardinality(InRepair) <= maxRepair

\* C1 witness: with the largest MaxRepair configured, that many jobs are inside Repair.
C1_Witness ==
    /\ maxRepair = MaxMaxRepair
    /\ Cardinality(InRepair) = maxRepair

\* C2: the units acquired and not released stay within 0 .. MaxRepair, and each
\* of them is owned: by a job in flight, by the dispatch step under way, or by
\* the barrier of WaitForPendingRepairs; no release returns a unit nobody holds.
C2_UnitsWithinCapacity ==
    /\ 0 <= limiterCur
    /\ limiterCur <= maxRepair
    /\ limiterCur = Cardinality(InFlight) + HeldByRun

\* C2 witness: the barrier holds the whole capacity after a run in which jobs
\* were in flight when the poll loop stopped on a failed Select.
C2_Witness ==
    /\ loopPC = "drained"
    /\ limiterCur = maxRepair
    /\ stoppedWith >= 1
    /\ runErr = ErrQueue

\* C3: the poll loop stops with 0 .. MaxRepair jobs in flight, and Run returns
\* only after every one of them has released its unit: while the barrier holds the capacity and once Run has
\* returned no job is in flight, and when Run has returned no unit is outstanding.
C3_RunReturnsAfterJobs ==
    /\ Stopped => ( 0 <= stoppedWith /\ stoppedWith <= maxRepair )
    /\ loopPC \in { "drained", "returned" } => InFlight = {}
    /\ loopPC = "returned" => limiterCur = 0

\* C3 witness: Run has returned after the poll loop stopped with MaxRepair >= 2
\* jobs in flight.
C3_Witness ==
    /\ loopPC = "returned"
    /\ maxRepair >= 2
    /\ stoppedWith = maxRepair

\* The goroutine of Run takes a step.
LoopStep == loopPC' # loopPC

\* The goroutine of job s takes a step (the step that spawns it is the loop's).
JobStep(s) == job[s].pc # "none" /\ job'[s] # job[s]

\* worker of job s has made all its queue and store calls.
CallsMade(s) == job[s].pc \in { "return", "cancel" }

\* C4: when Select fails with an error other than the empty-queue signal, the
\* step's unit is released exactly once (one unit less is out, no job is
\* spawned, every unit still out belongs to a job in flight), the error is
\* logged and returned up to Loop.Run, and the poll loop, once stopped, never
\* takes another dispatch step.
C4_SelectFailureReleasesOnceAndStops ==
    [][ /\ ( /\ loopPC = "selected"
             /\ selected.err \notin { Nil, ErrEmptyQueue }
             /\ LoopStep )
          => /\ limiterCur' = limiterCur - 1
             /\ job' = job
             /\ limiterCur' = Cardinality(InFlight)
             /\ runErr' = selected.err
             /\ processLog' = processLog + 1
             /\ loopPC' = "WaitForPendingRepairs"
        /\ Stopped => Stopped'
      ]_vars

\* C4 witness: the poll loop has stopped with the error of a failed Select and
\* the unit of that step is back in the limiter.
C4_Witness ==
    /\ loopPC = "WaitForPendingRepairs"
    /\ runErr = ErrQueue
    /\ processLog = 1
    /\ limiterCur = Cardinality(InFlight)
    /\ limiterCur >= 1

\* C5: when Select signals the empty queue, process releases the unit of the
\* step, processWhileQueueHasItems returns nil (nothing is logged, Loop.Run has
\* not returned), and the cycle waits for its next interval, at which it can
\* dispatch again.
C5_EmptyQueueEndsBurstCleanly ==
    [][ /\ ( /\ loopPC = "selected"
             /\ selected.err = ErrEmptyQueue
             /\ LoopStep )
          => /\ limiterCur' = limiterCur - 1
             /\ job' = job
             /\ processLog' = processLog
             /\ runErr' = NotReturned
             /\ loopPC' = "idle"
        /\ loopPC = "idle" => (~ Stopped /\ processLog = 0 /\ ENABLED CycleTick)
      ]_vars

\* C5 witness: after an empty-queue burst, with a job of an earlier burst still
\* in flight, the cycle is waiting and can fire again.
C5_Witness ==
    /\ loopPC = "idle"
    /\ runErr = NotReturned
    /\ processLog = 0
    /\ InFlight # {}
    /\ limiterCur = Cardinality(InFlight)
    /\ ENABLED CycleTick

\* C6: a job whose Repair returned (true, nil) calls Delete and never
\* IncrementRepairAttempts: once its calls are made they are Repair and Delete,
\* the irreparable store holds no record of the segment, and the segment is
\* gone from the repair queue when Delete succeeded.
C6_RepairedSegmentDeleted ==
    \A s \in Segments :
        ( /\ job[s].retDelete
          /\ job[s].retErr = Nil
          /\ job[s].pc \in { "Delete", "return", "cancel" } )
        => /\ job[s].irrErr = Nil
           /\ irrDB[s] = NoRecord
           /\ CallsMade(s) =>
                /\ job[s].calls = << "Repair", "Delete" >>
                /\ job[s].delErr = Nil => queue[s] = "deleted"

\* C6 witness: such a job has finished its calls and the segment is deleted.
C6_Witness ==
    \E s \in Segments :
        /\ job[s].pc = "cancel"
        /\ job[s].retDelete
        /\ job[s].retErr = Nil
        /\ job[s].calls = << "Repair", "Delete" >>
        /\ queue[s] = "deleted"
        /\ irrDB[s] = NoRecord

\* Job s: Repair returned (true, Irreparable) and IncrementRepairAttempts succeeded.
IrreparableRecorded(s) ==
    /\ CallsMade(s)
    /\ job[s].retDelete
    /\ IsIrreparable(job[s].retErr)
    /\ job[s].irrErr = Nil

\* The record of the irreparable store for job s: required - available lost
\* pieces, one attempt.
RecordOf(s) ==
    [ LostPieces |-> job[s].pieces[1] - job[s].pieces[2], RepairAttemptCount |-> 1 ]

\* C7 as stated: whenever Repair returned (true, Irreparable(required,
\* available)) and IncrementRepairAttempts succeeded, the segment is recorded
\* with lost pieces = required - available and attempt count 1, and it is
\* deleted from the repair queue.
C7_Original ==
    \A s \in Segments :
        IrreparableRecorded(s) => /\ irrDB[s] = RecordOf(s)
                                  /\ queue[s] = "deleted"

\* C7 as amended: ... the segment is recorded with lost pieces = required -
\* available and attempt count 1, and Delete is called for it: it is deleted
\* from the repair queue unless that Delete fails, in which case it stays queued
\* and the failure is combined into the job's error.
C7_IrreparableRecordedAndDeleteCalled ==
    \A s \in Segments :
        IrreparableRecorded(s) =>
            /\ irrDB[s] = RecordOf(s)
            /\ job[s].calls = << "Repair", "IncrementRepairAttempts", "Delete" >>
            /\ job[s].delErr = Nil => queue[s] = "deleted"
            /\ job[s].delErr # Nil => /\ queue[s] = "attempted"
                                      /\ job[s].err = Combine(job[s].retErr, ErrDelete)

\* C7 witness: required 10, available 3, the write succeeded: 7 lost pieces are
\* recorded and the segment is deleted.
C7_Witness ==
    \E s \in Segments :
        /\ IrreparableRecorded(s)
        /\ job[s].pieces = << 10, 3 >>
        /\ irrDB[s] = [ LostPieces |-> 7, RepairAttemptCount |-> 1 ]
        /\ queue[s] = "deleted"

\* Job s: Repair returned (true, Irreparable) and IncrementRepairAttempts failed.
IrreparableWriteFailed(s) ==
    /\ job[s].retDelete
    /\ IsIrreparable(job[s].retErr)
    /\ job[s].irrErr # Nil

\* What C8 says of the state of such a job once its calls are made.
C8_State(s) ==
    ( CallsMade(s) /\ IrreparableWriteFailed(s) )
    => /\ job[s].calls = << "Repair", "IncrementRepairAttempts" >>
       /\ queue[s] = "attempted"
       /\ irrDB[s] = NoRecord
       /\ "failed to add segment to irreparableDB" \in job[s].log
       /\ job[s].err = job[s].retErr
       /\ job[s].pc = "cancel" => job[s].returned = Wrap(job[s].retErr)

\* C8: when Repair returned (true, Irreparable) and IncrementRepairAttempts
\* fails, Delete is not called and the segment stays in the repair queue; the
\* store failure is logged and is not part of the error the job ends with, and
\* no step of that job changes where the poll loop stands.
C8_StoreFailureLeavesSegmentQueued ==
    [][ \A s \in Segments :
          /\ C8_State(s)'
          /\ ( JobStep(s) /\ IrreparableWriteFailed(s)' )
             => /\ loopPC' = loopPC
                /\ runErr' = runErr
                /\ processLog' = processLog
                /\ queue' = queue
      ]_vars

\* C8 witness: such a job has returned, its segment is still queued and the
\* poll loop is in a dispatch step.
C8_Witness ==
    \E s \in Segments :
        /\ job[s].pc = "cancel"
        /\ IrreparableWriteFailed(s)
        /\ queue[s] = "attempted"
        /\ loopPC = "Select"
        /\ runErr = NotReturned

\* C9 as stated: a worker run on a segment whose insertion timestamp is zero
\* records exactly one timing metric, time_for_repair.
C9_Original ==
    \A s \in Segments :
        ( job[s].pc = "cancel" /\ InsertedTime(s) = 0 )
        => job[s].metrics = { "time_for_repair" }

\* C9 as amended: a worker run that ends without an error on a segment whose
\* insertion timestamp is zero records exactly one timing metric,
\* time_for_repair (a run that ends with an error records none).
C9_LegacySegmentOneMetric ==
    \A s \in Segments :
        ( job[s].pc = "cancel" /\ InsertedTime(s) = 0 )
        => /\ job[s].returned = Nil => job[s].metrics = { "time_for_repair" }
           /\ job[s].returned # Nil => job[s].metrics = {}

\* C9 witness: a run on the legacy segment has ended without an error.
C9_Witness ==
    \E s \in Segments :
        /\ job[s].pc = "cancel"
        /\ InsertedTime(s) = 0
        /\ job[s].returned = Nil
        /\ job[s].metrics = { "time_for_repair" }

\* A step of the goroutine of Run.
LoopNext ==
    \/ Run
    \/ CycleTick
    \/ CycleCtxDone
    \/ AcquireGranted
    \/ AcquireFailed
    \/ Select
    \/ SelectEmpty
    \/ SelectFailed
    \/ Spawn
    \/ WaitAcquire
    \/ WaitRelease

\* No step of a job changes where the poll loop stands or what it returned.
JobsContained ==
    \A s \in Segments :
        JobStep(s) => /\ loopPC' = loopPC
                      /\ selected' = selected
                      /\ runErr' = runErr
                      /\ processLog' = processLog

\* The poll loop stops on a failed Acquire or a Select error other than empty-queue.
StopsOnAcquireOrSelect ==
    \/ loopPC = "Acquire" /\ ctxDone /\ runErr' = ErrCanceled /\ processLog' = processLog + 1
    \/ /\ loopPC = "selected"
       /\ selected.err \notin { Nil, ErrEmptyQueue }
       /\ runErr' = selected.err
       /\ processLog' = processLog + 1

\* Loop.Run returns by itself: the context of Run is done while the cycle waits
\* between two bursts; neither process nor processWhileQueueHasItems returned an error.
StopsOnCycleCtxDone ==
    loopPC = "idle" /\ ctxDone /\ runErr' = ErrCanceled /\ processLog' = processLog

\* Whatever the jobs did, the poll loop that has not stopped can take its next
\* step, unless it waits in Acquire for a unit while MaxRepair jobs are in flight.
LoopCanGoOn ==
    ( ~ Stopped /\ ~ ENABLED LoopNext )
    => /\ loopPC = "Acquire"
       /\ Cardinality(InFlight) = maxRepair

\* C10 as stated: no outcome of a job stops the poll loop or makes process or
\* processWhileQueueHasItems return an error; the only events that stop the
\* poll loop are a failed Acquire and a Select error other than empty-queue;
\* after a job failure the loop can still dispatch.
C10_Original ==
    [][ /\ JobsContained
        /\ ( ~ Stopped /\ Stopped' ) => StopsOnAcquireOrSelect
        /\ LoopCanGoOn
      ]_vars

\* C10 as amended: no outcome of a job stops the poll loop or makes process or
\* processWhileQueueHasItems return an error; process and
\* processWhileQueueHasItems return an error only on a failed Acquire or a
\* Select error other than empty-queue, and besides these two the poll loop
\* stops only when Loop.Run finds the context of Run cancelled between two
\* bursts; after a job failure the loop can still dispatch.
C10_JobOutcomesContained ==
    [][ /\ JobsContained
        /\ ( ~ Stopped /\ Stopped' ) => ( StopsOnAcquireOrSelect \/ StopsOnCycleCtxDone )
        /\ processLog' # processLog => StopsOnAcquireOrSelect
        /\ LoopCanGoOn
      ]_vars

\* C10 witness: with MaxRepair = 1, a job that ended with an Irreparable error
\* is over and the poll loop has dispatched the next segment to a new job.
C10_Witness ==
    \E s, u \in Segments :
        /\ s # u
        /\ maxRepair = 1
        /\ irrDB[s] # NoRecord
        /\ job[s].pc = "none"
        /\ job[u].pc = "spawned"
        /\ ~ Stopped

\* C11: process returns nil as soon as it has handed the segment to the job's
\* goroutine: the step after a successful Select leaves the job just spawned
\* (not run), keeps its unit out and puts the loop at its next Acquire; the
\* loop's Acquire and Select wait for no job, only for a free unit.
C11_DispatchDoesNotWaitForJobs ==
    [][ /\ ( loopPC = "selected" /\ selected.err = Nil /\ LoopStep )
          => /\ loopPC' = "Acquire"
             /\ job'[selected.seg].pc = "spawned"
             /\ \A s \in Segments \ { selected.seg } : job'[s] = job[s]
             /\ limiterCur' = limiterCur
             /\ runErr' = NotReturned
        /\ ( loopPC = "Acquire" /\ limiterCur < maxRepair ) => ENABLED AcquireGranted
        /\ loopPC = "Select" => ENABLED Select
      ]_vars

\* C11 witness: with MaxRepair >= 2, MaxRepair jobs are inside Repair at the
\* same time while the loop has already returned from process to its next Acquire.
C11_Witness ==
    /\ maxRepair >= 2
    /\ Cardinality(InRepair) = maxRepair
    /\ loopPC = "Acquire"
    /\ runErr = NotReturned

\* C12: every spawned job, whatever worker came to, cancels its deadline context
\* and then releases its unit, once, as its last action: a job ends only from
\* its deferred Release, which follows its deferred cancel, which follows
\* worker's return on every path; no other step of a job changes the limiter;
\* its queue and store calls are made before worker returns (the row of its
\* segment is deleted, and its record written, by no one but the job at that
\* call); a job that is over changes only by being spawned anew, and from
\* worker's return on nothing blocks the next step.
C12_JobReleasesOnceAtTheEnd ==
    [][ \A s \in Segments :
          /\ JobStep(s) =>
               /\ limiterCur' # limiterCur <=> job[s].pc = "Release"
               /\ job[s].pc = "Release" => /\ limiterCur' = limiterCur - 1
                                           /\ job[s].ctx = Cancelled
               /\ job'[s].pc = "none" <=> job[s].pc = "Release"
               /\ job'[s].pc = "Release" <=> job[s].pc = "cancel"
               /\ job'[s].pc = "cancel" <=> job[s].pc = "return"
               /\ ( queue' # queue \/ irrDB' # irrDB \/ Len(job'[s].calls) > Len(job[s].calls) )
                  => job[s].pc \in { "spawned", "IncrementRepairAttempts", "Delete" }
          /\ ( job[s].pc = "none" /\ job'[s] # job[s] )
             => ( loopPC = "selected" /\ selected.seg = s /\ job'[s].pc = "spawned" )
          /\ queue'[s] \notin { queue[s], "pending", "attempted" } => job[s].pc = "Delete"
          /\ irrDB'[s] # irrDB[s] => job[s].pc = "IncrementRepairAttempts"
          /\ job[s].pc \in { "return", "cancel", "Release" }
             => ENABLED ( WorkerReturn(s) \/ JobCancel(s) \/ JobRelease(s) )
      ]_vars

\* C12 witness: a job that recorded its segment as irreparable and whose Delete
\* failed has cancelled its context and is at its deferred Release.
C12_Witness ==
    \E s \in Segments :
        /\ job[s].pc = "Release"
        /\ job[s].ctx = Cancelled
        /\ irrDB[s] # NoRecord
        /\ queue[s] = "attempted"
        /\ limiterCur >= 1

\* C13: when the admission Acquire of process fails, the incoming context is
\* cancelled and process returns that error, logged once, which stops the poll
\* loop; the step acquires no unit, creates no deadline context, calls neither
\* Select nor Delete and spawns no job: the outstanding units, the queue, the
\* irreparable store and the jobs are unchanged by it.
C13_FailedAcquireChangesNothing ==
    [][ ( loopPC = "Acquire" /\ LoopStep /\ loopPC' # "Select" )
        => /\ ctxDone
           /\ runErr = NotReturned /\ runErr' = ErrCanceled
           /\ processLog' = processLog + 1
           /\ loopPC' = "WaitForPendingRepairs"
           /\ limiterCur' = limiterCur
           /\ stepCtx = NoCtx /\ stepCtx' = NoCtx
           /\ selected = NoSelect /\ selected' = NoSelect
           /\ queue' = queue
           /\ irrDB' = irrDB
           /\ job' = job
      ]_vars

\* C13 witness: the poll loop stopped with the cancellation error while
\* MaxRepair jobs held every unit, so the failure was that of the admission
\* Acquire (Select is never reached without a free unit); the units
\* outstanding are those of the jobs alone and no deadline context exists.
C13_Witness ==
    /\ loopPC = "WaitForPendingRepairs"
    /\ runErr = ErrCanceled
    /\ processLog = 1
    /\ stoppedWith = maxRepair
    /\ limiterCur = Cardinality(InFlight)
    /\ Cardinality(InFlight) = maxRepair
    /\ stepCtx = NoCtx

\* C14: the deadline clock of a dispatch step starts after the admission Acquire
\* succeeded and before Select: no deadline context exists while the loop is
\* at Acquire (or anywhere outside a dispatch step), the context is live with
\* nothing counted against it when Select is about to be called, the wait for
\* a unit is never counted against it and the time in Select always is, and
\* the context of a job's Repair call is the one Select was called with.
C14_ClockStartsBetweenAcquireAndSelect ==
    /\ loopPC \notin { "Select", "selected" } => stepCtx = NoCtx
    /\ loopPC = "Select" => stepCtx.state = "live" /\ stepCtx.charged = {}
    /\ loopPC = "selected" => stepCtx.state = "live" /\ stepCtx.charged = { "Select" }
    /\ \A s \in Segments :
          /\ job[s].pc = "spawned"
             => job[s].ctx.state = "live" /\ job[s].ctx.charged = { "Select" }
          /\ job[s].pc \in { "Repair", "IncrementRepairAttempts", "Delete", "return", "cancel" }
             => job[s].ctx.state = "live" /\ job[s].ctx.charged = { "Select", "Repair" }

\* C14 witness: one job is inside Repair under the context its Select ran on,
\* while the next dispatch step, having waited for no longer than its Acquire,
\* has returned from Select under a context of its own.
C14_Witness ==
    /\ loopPC = "selected"
    /\ selected.seg # 0
    /\ stepCtx.charged = { "Select" }
    /\ \E s \in Segments :
          /\ job[s].pc = "Repair"
          /\ job[s].ctx.charged = { "Select", "Repair" }

\* Job s: Repair returned a non-nil error that is not an irreparableError (the
\* error of an elapsed deadline is one of these).
GenericError(s) == job[s].retErr # Nil /\ ~ IsIrreparable(job[s].retErr)

\* C15 as stated: after a Repair error that is not irreparable the segment is
\* never deleted from the repair queue.
C15_Original ==
    \A s \in Segments :
        ( CallsMade(s) /\ GenericError(s) ) => queue[s] # "deleted"

\* C15: after a Repair error that is not irreparable, the segment stays in the
\* repair queue when Repair returned shouldDelete = false, and also when it
\* returned true and Delete failed; when Repair returned shouldDelete = true and
\* Delete succeeded the job has deleted it. Nothing is recorded as irreparable.
C15_GenericErrorDeletionFollowsSignal ==
    \A s \in Segments :
        ( CallsMade(s) /\ GenericError(s) )
        => /\ ~ job[s].retDelete => queue[s] = "attempted"
           /\ ( job[s].retDelete /\ job[s].delErr # Nil ) => queue[s] = "attempted"
           /\ ( job[s].retDelete /\ job[s].delErr = Nil ) => queue[s] = "deleted"
           /\ irrDB[s] = NoRecord

\* C15 witness: two jobs came back from Repair with the same generic error; the
\* one told to delete has deleted its segment, the other has left it queued.
C15_Witness ==
    \E s, t \in Segments :
        /\ CallsMade(s) /\ CallsMade(t)
        /\ job[s].retErr = ErrRepair /\ job[t].retErr = ErrRepair
        /\ job[s].retDelete /\ queue[s] = "deleted"
        /\ ~ job[t].retDelete /\ queue[t] = "attempted"

\* Job s has called c.
Called(s, c) == \E i \in 1 .. Len(job[s].calls) : job[s].calls[i] = c

\* C16: a job whose Repair call returned a non-nil error that is not
\* irreparable calls queue Delete if and only if Repair returned
\* shouldDelete = true, once and right after Repair, and never calls
\* IncrementRepairAttempts; it logs the unexpected error only when told to delete.
C16_GenericErrorDeleteIffSignalled ==
    \A s \in Segments :
        GenericError(s)
        => /\ ~ Called(s, "IncrementRepairAttempts")
           /\ job[s].pc # "IncrementRepairAttempts"
           /\ job[s].pc = "Delete" => job[s].retDelete
           /\ CallsMade(s) =>
                /\ Called(s, "Delete") <=> job[s].retDelete
                /\ job[s].calls = IF job[s].retDelete THEN << "Repair", "Delete" >>
                                                       ELSE << "Repair" >>
           /\ "unexpected error repairing segment" \in job[s].log <=> job[s].retDelete

\* C16 witness: worker has returned for two jobs with a generic Repair error,
\* one that called Delete as signalled and one that called nothing after Repair.
C16_Witness ==
    \E s, t \in Segments :
        /\ job[s].pc = "cancel" /\ job[t].pc = "cancel"
        /\ GenericError(s) /\ GenericError(t)
        /\ job[s].retDelete /\ Called(s, "Delete")
        /\ ~ job[t].retDelete /\ ~ Called(t, "Delete")

\* C17: a job whose Repair call returned shouldDelete = false calls neither
\* queue Delete nor IncrementRepairAttempts, whatever the error returned (nil,
\* generic or irreparable): Repair is its only call, it logs no classification
\* record, the segment stays in the repair queue and nothing is recorded for it
\* in the irreparable store.
C17_NoDeleteSignalTouchesNothing ==
    \A s \in Segments :
        ( CallsMade(s) /\ ~ job[s].retDelete )
        => /\ job[s].calls = << "Repair" >>
           /\ ~ job[s].shouldDelete
           /\ job[s].irrErr = Nil /\ job[s].delErr = Nil
           /\ job[s].err = job[s].retErr
           /\ job[s].log \subseteq { "repair worker failed" }
           /\ queue[s] = "attempted"
           /\ irrDB[s] = NoRecord

\* C17 witness: worker has returned for a job whose Repair returned (false,
\* Irreparable) and for one whose Repair returned (false, nil); both segments
\* are still queued and the irreparable store is empty.
C17_Witness ==
    \E s, t \in Segments :
        /\ job[s].pc = "cancel" /\ job[t].pc = "cancel"
        /\ ~ job[s].retDelete /\ job[s].retErr = ErrIrreparable
        /\ ~ job[t].retDelete /\ job[t].retErr = Nil
        /\ queue[s] = "attempted" /\ queue[t] = "attempted"
        /\ \A u \in Segments : irrDB[u] = NoRecord

\* Error e contains the error part.
Contains(e, part) ==
    \E i \in 1 .. Len(e) : i + Len(part) - 1 <= Len(e) /\ SubSeq(e, i, i + Len(part) - 1) = part

\* C18: when queue Delete failed inside a job, the error worker returns is
\* non-nil and is the wrapped combination of the error Repair returned with
\* the deletion failure: it contains the deletion failure, and the Repair error
\* when there was one; this holds also when Repair returned nil. The job is
\* logged as failed and records no metric.
C18_DeleteFailureCombined ==
    \A s \in Segments :
        job[s].delErr # Nil
        => /\ job[s].delErr = ErrDelete
           /\ job[s].retDelete
           /\ job[s].pc = "return" => job[s].err = Combine(job[s].retErr, ErrDelete)
           /\ job[s].pc = "cancel" =>
                /\ job[s].returned # Nil
                /\ job[s].returned = Wrap(job[s].retErr \o ErrDelete)
                /\ Contains(job[s].returned, ErrDelete)
                /\ job[s].retErr # Nil => Contains(job[s].returned, job[s].retErr)
                /\ job[s].metrics = {}
                /\ "repair worker failed" \in job[s].log

\* C18 witness: Delete failed in two jobs that have returned, one whose Repair
\* returned nil and one whose Repair returned an irreparableError that was
\* recorded; both results carry the deletion failure.
C18_Witness ==
    \E s, t \in Segments :
        /\ job[s].pc = "cancel" /\ job[t].pc = "cancel"
        /\ job[s].delErr # Nil /\ job[t].delErr # Nil
        /\ job[s].retErr = Nil
        /\ job[t].retErr = ErrIrreparable /\ irrDB[t] # NoRecord
        /\ Contains(job[s].returned, ErrDelete)
        /\ Contains(job[t].returned, ErrIrreparable \o ErrDelete)

\* C19: shutdown terminates. Under fair scheduling, with every call of a job
\* returning, once the poll loop has exited Service.Run returns: the
\* full-capacity Acquire of WaitForPendingRepairs is granted after the jobs in
\* flight have released their units, and its Release follows.
C19_ShutdownTerminates == Stopped ~> loopPC = "returned"

\* C19 witness: Run has returned after a poll loop that stopped with every
\* unit held by a job; no job is left and no unit is outstanding.
C19_Witness ==
    /\ loopPC = "returned"
    /\ maxRepair >= 2
    /\ stoppedWith = maxRepair
    /\ InFlight = {}
    /\ limiterCur = 0

\* The segments Select has claimed and whose job has not finished: the one
\* the current dispatch step holds, and those of the jobs in flight.
ClaimedUnfinished ==
    InFlight \cup (IF selected.seg # 0 THEN { selected.seg } ELSE {})

\* C20: Select is called only while the dispatch step holds the unit it has
\* just acquired: at Select and on its return the units outstanding are one
\* per job in flight plus the step's own, so fewer than MaxRepair jobs are in
\* flight; the segments claimed and not finished are never more than
\* MaxRepair. Select alone claims a segment, only a pending one, and a
\* claimed segment is never pending again; the segment a successful Select
\* returned has no job yet, and a job is spawned only by the dispatch step
\* that holds this segment, which thereby gives it up: one worker run for it.
C20_SelectHoldsFreshUnit ==
    /\ [] /\ loopPC \in { "Select", "selected" }
             => /\ limiterCur = Cardinality(InFlight) + 1
                /\ Cardinality(InFlight) < maxRepair
          /\ Cardinality(ClaimedUnfinished) <= maxRepair
          /\ selected.seg # 0
             => /\ loopPC = "selected" /\ selected.err = Nil
                /\ queue[selected.seg] = "attempted"
                /\ job[selected.seg].pc = "none"
          /\ \A s \in Segments :
                job[s].pc # "none" => queue[s] \in { "attempted", "deleted" }
    /\ [][ \A s \in Segments :
             /\ ( queue'[s] = "attempted" /\ queue[s] # "attempted" )
                => /\ loopPC = "Select" /\ queue[s] = "pending"
                   /\ selected'.seg = s
             /\ queue[s] \in { "attempted", "deleted" } => queue'[s] # "pending"
             /\ ( job'[s].pc = "spawned" /\ job[s].pc # "spawned" )
                => /\ selected.seg = s /\ selected'.seg = 0
                   /\ job[s].pc = "none"
             /\ ( selected.seg = s /\ selected' # selected )
                => job'[s].pc = "spawned"
       ]_vars

\* C20 witness: with MaxRepair >= 2, Select has returned a segment to a
\* dispatch step while MaxRepair - 1 jobs are in flight: the step holds the
\* last unit and its segment has no job yet.
C20_Witness ==
    /\ maxRepair >= 2
    /\ loopPC = "selected"
    /\ selected.seg # 0
    /\ Cardinality(InFlight) = maxRepair - 1
    /\ limiterCur = maxRepair
    /\ job[selected.seg].pc = "none"

\* C21: the deadline context of every job is derived from the context given
\* to Run: every context that exists, that of the dispatch step and that of
\* each job in flight, is a child of Run's context, and once Run's context is
\* cancelled each of them is done although its deadline has not elapsed and
\* its own cancel() has not been called; the step that cancels Run's context
\* is what makes them done.
C21_JobContextsFollowRunContext ==
    /\ [] /\ stepCtx.state = "live"
             => stepCtx.parent = "Run" /\ ( ctxDone => Done(stepCtx) )
          /\ \A s \in Segments :
                job[s].ctx.state = "live"
                => /\ job[s].ctx.parent = "Run"
                   /\ ctxDone => Done(job[s].ctx)
    /\ [][ ( ~ ctxDone /\ ctxDone' )
           => \A s \in Segments :
                job[s].ctx.state = "live"
                => /\ ~ Done(job[s].ctx)
                   /\ job'[s] = job[s]
                   /\ Done(job[s].ctx)'
       ]_vars

\* C21 witness: Run's context is cancelled while MaxRepair >= 2 jobs are
\* inside Repair; none has called cancel(), and the context of each is done.
C21_Witness ==
    /\ ctxDone
    /\ maxRepair >= 2
    /\ Cardinality(InRepair) = maxRepair
    /\ \A s \in InRepair : job[s].ctx.state = "live" /\ Done(job[s].ctx)

\* C22: a worker run records timing metrics only when its final error is nil.
\* No metric is recorded before worker returns; once it has returned, if
\* Repair returned a non-nil error of any kind (an irreparableError whose
\* record was written and whose segment was deleted included) or Delete
\* failed, the result is a wrapped non-nil error, the job is logged as failed
\* and neither time_for_repair nor time_since_checker_queue is recorded;
\* otherwise the result is nil, time_for_repair is recorded and the job is not
\* logged as failed.
C22_MetricsOnlyOnNilError ==
    \A s \in Segments :
        /\ job[s].pc # "cancel" => job[s].metrics = {}
        /\ job[s].pc = "cancel" =>
             IF job[s].retErr # Nil \/ job[s].delErr # Nil
             THEN /\ job[s].returned # Nil
                  /\ Head(job[s].returned) = "repairer error"
                  /\ "repair worker failed" \in job[s].log
                  /\ job[s].metrics = {}
             ELSE /\ job[s].returned = Nil
                  /\ "repair worker failed" \notin job[s].log
                  /\ "time_for_repair" \in job[s].metrics

\* C22 witness: worker has returned for a job whose segment was recorded as
\* irreparable and deleted, with an error and no metric, and for a job that
\* ended without error, with its metrics.
C22_Witness ==
    \E s, t \in Segments :
        /\ job[s].pc = "cancel" /\ job[t].pc = "cancel"
        /\ job[s].retErr = ErrIrreparable
        /\ irrDB[s] # NoRecord /\ queue[s] = "deleted"
        /\ job[s].returned # Nil /\ job[s].metrics = {}
        /\ job[t].returned = Nil /\ job[t].metrics # {}

====
